---- MODULE Spec2Model ----
(***************************************************************************)
(* A model of BLS_Slide_Creator.py: one sequential script that posts one   *)
(* request to the BLS time-series API, extracts the latest value of every  *)
(* series and the history of two of them, joins and sorts the two          *)
(* histories with pandas, and writes the result into a slide of a          *)
(* PowerPoint template.                                                    *)
(*                                                                         *)
(* Python strings that the script never takes apart (a value, a period     *)
(* name, a year) are TLA+ strings; a string the script builds with + is    *)
(* the sequence of its pieces, so "March" + "-" + "2024" is                *)
(* <<"March", "-", "2024">>.  An uncaught exception ends the script: the   *)
(* model records its type in error and moves pc to "failed".               *)
(***************************************************************************)
EXTENDS Integers, Sequences, FiniteSets, TLC

VARIABLES
    pc,           \* the statement the script is about to execute
    error,        \* type of the uncaught exception, "none" while running
    server,       \* environment: what the API answers to the request
    template,     \* environment: the template file on disk
    requests,     \* number of POST requests sent so far
    json_data,    \* l.76
    each,         \* l.88: index of the next series of the extraction loop
    catch,        \* l.89: last result of find_latest_value
    Lvals_dict,   \* l.86
    URT_Data,     \* l.95
    AHE_Data,     \* l.98
    UEL_Data,     \* l.101
    LF_Data,      \* l.105
    UEL_DF,       \* l.110
    LF_DF,        \* l.111
    merged_df,    \* l.113
    slide,        \* l.149: the slide being built in memory
    outfile       \* the output file on disk: the slides of the saved deck

vars == <<pc, error, server, template, requests, json_data, each, catch,
          Lvals_dict, URT_Data, AHE_Data, UEL_Data, LF_Data, UEL_DF, LF_DF,
          merged_df, slide, outfile>>

----------------------------------------------------------------------------
(* Bounds of the inputs drawn by the initial conditions.                   *)

\* longest observation sequence drawn for a series whose data is varied
MaxObs == 3

\* longest observation sequence drawn for the Labor Force series when both
\* trended series are varied
MaxObsLF == 2

\* longest series list drawn for the response
MaxSeries == 4

----------------------------------------------------------------------------
(* Python values.                                                          *)

\* Python's None, and a present value
None == [isNone |-> TRUE]
Some(v) == [isNone |-> FALSE, val |-> v]

\* the outcome of a call: a returned value or a raised exception
Return(v) == [raised |-> FALSE, val |-> v]
Raise(exc) == [raised |-> TRUE, exc |-> exc]

\* a missing number of a pandas column, and a present one
NaN == [nan |-> TRUE]
Num(n) == [nan |-> FALSE, n |-> n]

\* a missing timestamp of a pandas column, and a present one (as yyyymmdd)
NaT == [nat |-> TRUE]
Date(ymd) == [nat |-> FALSE, ymd |-> ymd]

\* the empty dict
EmptyDict == [k \in {} |-> None]

\* d[k] = v for a dict d
DictSet(d, k, v) == [x \in (DOMAIN d) \cup {k} |-> IF x = k THEN v ELSE d[x]]

RECURSIVE Concat(_)
\* the concatenation of a sequence of sequences
Concat(ss) == IF ss = <<>> THEN <<>> ELSE Head(ss) \o Concat(Tail(ss))

\* whether piece s occurs in the built string text
Contains(text, s) == \E i \in DOMAIN text : text[i] = s

----------------------------------------------------------------------------
(* The request and the label table.                                        *)

\* l.66-69: the series identifiers requested, in request order
seriesid == <<"LNS13000000", "JTS000000000000000JOL", "CES0500000003", "LNS14000000">>

\* l.79-83
data_dict_key == [s \in {seriesid[i] : i \in DOMAIN seriesid} |->
    CASE s = "LNS13000000" -> "Unemployment Level"
      [] s = "JTS000000000000000JOL" -> "Labor Force"
      [] s = "CES0500000003" -> "Avg Hourly Earnings"
      [] s = "LNS14000000" -> "Unemployment Rate"]

\* l.119-123
month_map == [m \in {"January", "February", "March", "April", "May", "June",
                     "July", "August", "September", "October", "November",
                     "December"} |->
    CASE m = "January" -> 1 [] m = "February" -> 2 [] m = "March" -> 3
      [] m = "April" -> 4 [] m = "May" -> 5 [] m = "June" -> 6
      [] m = "July" -> 7 [] m = "August" -> 8 [] m = "September" -> 9
      [] m = "October" -> 10 [] m = "November" -> 11 [] m = "December" -> 12]

----------------------------------------------------------------------------
(* The Extractor's two functions.                                          *)

\* dict.get: the value under key k, None when the key is absent
Get(item, k) == IF k \in DOMAIN item THEN Some(item[k]) ELSE None

\* l.30-34 with the break dropped: the last flagged item wins
ScanLatestNoBreak(data, i) ==
    LET hits == {j \in i..Len(data) : Get(data[j], "latest") = Some("true")}
    IN  IF hits = {} THEN None
        ELSE Some(data[CHOOSE j \in hits : \A k \in hits : k <= j])

RECURSIVE ScanLatest(_, _)
\* l.30-34: the first item from position i on whose 'latest' is 'true'
ScanLatest(data, i) ==
    IF i > Len(data) THEN None
    ELSE IF Get(data[i], "latest") = Some("true") THEN Some(data[i])
    ELSE ScanLatest(data, i + 1)

\* l.29-41: subscripting None raises TypeError
find_latest_value(jsoninput) ==
    LET latest_data == ScanLatest(jsoninput.data, 1)
    IN  IF latest_data.isNone THEN Raise("TypeError")
        ELSE Return(<<jsoninput.seriesID,
                      latest_data.val.value,
                      <<latest_data.val.periodName, "-", latest_data.val.year>> >>)

RECURSIVE ScanTrended(_, _, _)
\* l.45-47 from position i on; falling off the loop returns None
ScanTrended(jsoninput, key, i) ==
    IF i > Len(jsoninput) THEN Return(None)
    ELSE IF jsoninput[i].seriesID \notin DOMAIN data_dict_key THEN Raise("KeyError")
    ELSE IF data_dict_key[jsoninput[i].seriesID] = key
         THEN Return(Some(jsoninput[i].data))
    ELSE ScanTrended(jsoninput, key, i + 1)

\* the series picked by its place in the list: the request's order
TrendedByPosition(jsoninput, key) ==
    LET i == CHOOSE k \in DOMAIN seriesid : data_dict_key[seriesid[k]] = key
    IN  IF i > Len(jsoninput) THEN Return(None) ELSE Return(Some(jsoninput[i].data))

\* l.44-47
find_trended_data(jsoninput, key) == ScanTrended(jsoninput, key, 1)

----------------------------------------------------------------------------
(* The pandas operations the Reshaper uses.                                *)

\* pd.DataFrame(data): the columns are the keys that occur; None gives the
\* empty frame
DataFrame(data) ==
    IF data.isNone THEN [columns |-> {}, rows |-> <<>>]
    ELSE [columns |-> UNION {DOMAIN data.val[i] : i \in DOMAIN data.val},
          rows |-> data.val]

\* DataFrame.drop(columns=cols): KeyError when a column is not there
Drop(df, cols) ==
    IF ~(cols \subseteq df.columns) THEN Raise("KeyError")
    ELSE Return([columns |-> df.columns \ cols,
                 rows |-> [i \in DOMAIN df.rows |->
                     [f \in (DOMAIN df.rows[i]) \ cols |-> df.rows[i][f]]]])

\* the join with periodName left out of the key
JoinOnYearPeriod == {"year", "period"}

\* l.114-115: the columns joined on
JoinOn == {"year", "period", "periodName"}

\* whether rows l and r agree on the join columns
KeyMatch(l, r) == \A f \in JoinOn : l[f] = r[f]

\* the merged row with both values taken from the left frame
MergedRowLeftOnly(l, r) ==
    [year |-> l.year, period |-> l.period, periodName |-> l.periodName,
     value_UEL |-> l.value, value_LB |-> l.value]

\* the merged row of a matching pair, with the suffixes of l.115-116
MergedRow(l, r) ==
    [year |-> l.year, period |-> l.period, periodName |-> l.periodName,
     value_UEL |-> l.value, value_LB |-> r.value]

\* the rows of right that match l, in right's order
MatchesOf(l, right) ==
    LET RECURSIVE From(_)
        From(j) == IF j > Len(right) THEN <<>>
                   ELSE (IF KeyMatch(l, right[j]) THEN <<MergedRow(l, right[j])>>
                         ELSE <<>>) \o From(j + 1)
    IN  From(1)

\* l.113-116, pd.merge(how='inner'): every matching pair, in left's order
Merge(left, right) ==
    IF ~(JoinOn \subseteq left.columns /\ JoinOn \subseteq right.columns)
    THEN Raise("KeyError")
    ELSE Return(Concat([i \in DOMAIN left.rows |-> MatchesOf(left.rows[i], right.rows)]))

\* l.126, Series.map(month_map): NaN for a name that is not a key
MapMonth(periodName) ==
    IF periodName \in DOMAIN month_map THEN Num(month_map[periodName]) ELSE NaN

\* the years the inputs use, as the API's strings
Years == {"2023", "2024"}

\* pd.to_numeric of a year string
ToNumeric(y) == CASE y = "2023" -> 2023 [] y = "2024" -> 2024

\* l.129, pd.to_datetime of (year, month, day=1): year*10000 + month*100 +
\* day read as %Y%m%d; a missing month gives NaT
ToDatetime(row) ==
    IF row.month.nan THEN NaT
    ELSE Date(ToNumeric(row.year) * 10000 + row.month.n * 100 + 1)

\* ascending order of two dates with NaT last (na_position='last')
DateLeq(a, b) == IF a.nat THEN b.nat ELSE (b.nat \/ a.ymd <= b.ymd)

\* descending order, NaT last
DateGeq(a, b) == IF a.nat THEN b.nat ELSE (b.nat \/ a.ymd >= b.ymd)

\* the comparison sort_values sorts by (l.133: ascending=True)
SortLeq(a, b) == DateLeq(a, b)

RECURSIVE InsertRow(_, _)
\* row r put after the last row of the sorted rows that is not after it
InsertRow(sorted, r) ==
    IF sorted = <<>> THEN <<r>>
    ELSE IF SortLeq(sorted[Len(sorted)].date, r.date) THEN Append(sorted, r)
    ELSE Append(InsertRow(SubSeq(sorted, 1, Len(sorted) - 1), r), sorted[Len(sorted)])

RECURSIVE SortRows(_, _)
\* insertion sort of rows, as numpy's quicksort does below 16 elements
SortRows(rows, n) ==
    IF n = 0 THEN <<>> ELSE InsertRow(SortRows(rows, n - 1), rows[n])

\* l.133, sort_values(by=['date'])
SortValues(rows) == SortRows(rows, Len(rows))

----------------------------------------------------------------------------
(* The python-pptx operations the Renderer uses.                           *)

\* strftime('%b'): the abbreviated name of month m
MonthAbbr(m) ==
    CASE m = 1 -> "Jan" [] m = 2 -> "Feb" [] m = 3 -> "Mar" [] m = 4 -> "Apr"
      [] m = 5 -> "May" [] m = 6 -> "Jun" [] m = 7 -> "Jul" [] m = 8 -> "Aug"
      [] m = 9 -> "Sep" [] m = 10 -> "Oct" [] m = 11 -> "Nov" [] m = 12 -> "Dec"

\* strftime('%Y'): the year as a string
YearStr(y) == CASE y = 2023 -> "2023" [] y = 2024 -> "2024"

\* l.198-199, Timestamp.strftime('%b %Y'); NaT does not support strftime
Strftime(d) ==
    IF d.nat THEN Raise("ValueError")
    ELSE Return(<<MonthAbbr((d.ymd \div 100) % 100), " ", YearStr(d.ymd \div 10000)>>)

\* the dates of the rows that have one
Dated(rows) == {rows[i].date : i \in {j \in DOMAIN rows : ~rows[j].date.nat}}

\* l.198, Series.min(): NaT is skipped; NaT when nothing is left
MinDate(rows) ==
    IF Dated(rows) = {} THEN NaT
    ELSE CHOOSE d \in Dated(rows) : \A e \in Dated(rows) : d.ymd <= e.ymd

\* l.199, Series.max()
MaxDate(rows) ==
    IF Dated(rows) = {} THEN NaT
    ELSE CHOOSE d \in Dated(rows) : \A e \in Dated(rows) : d.ymd >= e.ymd

\* the notes with the values (element 0 of the pairs) in place of the labels
NotesTextOfValues(urt, ahe) ==
    <<"Unemployment Rate Data: ">> \o <<urt[1]>> \o <<"\n">>
        \o <<"Avg Hourly Earnings Data: ">> \o <<ahe[1]>>

\* l.214-215: element 1 of each (value, label) pair, Python's index 1
NotesText(urt, ahe) ==
    <<"Unemployment Rate Data: ">> \o urt[2] \o <<"\n">>
        \o <<"Avg Hourly Earnings Data: ">> \o ahe[2]

\* l.149: the slide just added, nothing on it yet
BlankSlide ==
    [URTbox |-> <<>>, AHEbox |-> <<>>, categories |-> <<>>,
     series |-> <<>>, chart_title |-> <<>>, stock_txtbox |-> <<>>,
     notes |-> <<>>]

----------------------------------------------------------------------------
(* The inputs: what the API may answer and what the template may hold.     *)

\* one observation as the API sends it; only the latest one carries 'latest'
Obs(y, p, pn, v) ==
    [year |-> y, period |-> p, periodName |-> pn, value |-> v, footnotes |-> <<>>]

\* observation o with the flag 'latest': 'true'
Flagged(o) ==
    [f \in (DOMAIN o) \cup {"latest"} |-> IF f = "latest" THEN "true" ELSE o[f]]

\* a series of the response
Series(id, data) == [seriesID |-> id, data |-> data]

\* a series identifier the script did not ask for
OtherSeries == "LNS12000000"

\* the identifiers a response may carry
SeriesIds == {seriesid[i] : i \in DOMAIN seriesid} \cup {OtherSeries}

\* fixed monthly data of series id, newest first, values that tell the
\* series apart
BaseData(id) ==
    LET v == CASE id = "LNS13000000" -> <<"6458", "6124">>
               [] id = "JTS000000000000000JOL" -> <<"8813", "8748">>
               [] id = "CES0500000003" -> <<"34.57", "34.52">>
               [] id = "LNS14000000" -> <<"3.9", "3.7">>
               [] OTHER -> <<"6500", "6400">>
    IN  <<Flagged(Obs("2024", "M02", "February", v[1])),
          Obs("2024", "M01", "January", v[2])>>

\* the sequences over S of length lo..hi
SeqsOf(S, lo, hi) == UNION {[1..n -> S] : n \in lo..hi}

\* a response: reachable or not, JSON or not, with or without a series list
Unreachable == [status |-> "unreachable", body |-> <<>>]
Malformed == [status |-> "malformed", body |-> <<>>]
NotProcessed == [status |-> "ok", body |-> [Results |-> EmptyDict]]
Answer(series) == [status |-> "ok", body |-> [Results |-> [series |-> series]]]

\* a template file: there or not, with so many slide layouts
NoTemplate == [exists |-> FALSE, layouts |-> 0]
Template(n) == [exists |-> TRUE, layouts |-> n]

\* l.145
layout_index == 2

\* the templates drawn: none, too few layouts, enough layouts
Templates == {NoTemplate, Template(layout_index), Template(layout_index + 1)}

\* the four requested series in request order with their fixed data, the
\* data of series id replaced by data
RequestedWith(id, data) ==
    [i \in DOMAIN seriesid |->
        Series(seriesid[i], IF seriesid[i] = id THEN data ELSE BaseData(seriesid[i]))]

\* the state before the first statement, for a given environment
InitWith(srv, tpl) ==
    /\ server = srv
    /\ template = tpl
    /\ pc = "fetch"
    /\ error = [exc |-> "none", at |-> "none"]
    /\ requests = 0
    /\ json_data = <<>>
    /\ each = 1
    /\ catch = <<>>
    /\ Lvals_dict = EmptyDict
    /\ URT_Data = <<>>
    /\ AHE_Data = <<>>
    /\ UEL_Data = None
    /\ LF_Data = None
    /\ UEL_DF = DataFrame(None)
    /\ LF_DF = DataFrame(None)
    /\ merged_df = <<>>
    /\ slide = None
    /\ outfile = <<>>

\* responses that differ in which series they carry and in what order
\* (every sequence of distinct identifiers), and every other environment
Init ==
    \E srv \in {Unreachable, Malformed, NotProcessed}
               \cup {Answer([i \in DOMAIN ids |-> Series(ids[i], BaseData(ids[i]))]) :
                     ids \in {s \in SeqsOf(SeriesIds, 0, MaxSeries) :
                              \A i, j \in DOMAIN s : s[i] = s[j] => i = j}},
       tpl \in Templates :
        InitWith(srv, tpl)

\* the observations drawn for a series whose latest value is looked up
LatestObs ==
    LET plain == {Obs("2024", pp[1], pp[2], v) :
                  pp \in {<<"M03", "March">>, <<"M04", "April">>}, v \in {"3.7", "3.9"}}
    IN  plain \cup {Flagged(o) : o \in plain}

\* responses that differ in the data of one series: any number of flagged
\* observations, none included
InitLatest ==
    \E id \in {seriesid[i] : i \in DOMAIN seriesid},
       data \in SeqsOf(LatestObs, 0, MaxObs) :
        InitWith(Answer(RequestedWith(id, data)), Template(layout_index + 1))

\* the (year, period, periodName) keys drawn for the trended series: two
\* months of one year, a month of the next, and that month under a name
\* month_map does not have
TrendKeys ==
    {<<"2023", "M01", "January">>, <<"2023", "M02", "February">>,
     <<"2024", "M01", "January">>, <<"2023", "M01", "Jan">>}

\* the i-th value of each trended series: every observation has its own
UELValues == <<"6458", "6124", "6010", "5987">>
LFValues == <<"8813", "8748", "8702", "8650">>

\* the observations with keys ks and values vals, the first flagged latest
TrendData(ks, vals) ==
    [i \in DOMAIN ks |->
        LET o == Obs(ks[i][1], ks[i][2], ks[i][3], vals[i])
        IN  IF i = 1 THEN Flagged(o) ELSE o]

\* responses that differ in the two trended series: any keys in any order,
\* repeated keys included
InitReshape ==
    \E ka \in SeqsOf(TrendKeys, 1, MaxObs), kb \in SeqsOf(TrendKeys, 1, MaxObsLF) :
        InitWith(Answer(<<Series("LNS13000000", TrendData(ka, UELValues)),
                          Series("JTS000000000000000JOL", TrendData(kb, LFValues)),
                          Series("CES0500000003", BaseData("CES0500000003")),
                          Series("LNS14000000", BaseData("LNS14000000"))>>),
                 Template(layout_index + 1))

----------------------------------------------------------------------------
(* The script, statement by statement.                                     *)

\* row r with column f set to v
WithColumn(r, f, v) == [x \in (DOMAIN r) \cup {f} |-> IF x = f THEN v ELSE r[x]]

\* an uncaught exception of type exc: the script ends where it is
Fail(exc) ==
    /\ pc' = "failed"
    /\ error' = [exc |-> exc, at |-> pc]

\* l.62-76 and l.86: one POST, the body parsed as JSON
Fetch ==
    /\ pc = "fetch"
    /\ requests' = requests + 1
    /\ IF server.status = "unreachable"
       THEN Fail("ConnectionError") /\ UNCHANGED json_data
       ELSE IF server.status = "malformed"
       THEN Fail("JSONDecodeError") /\ UNCHANGED json_data
       ELSE /\ json_data' = server.body
            /\ pc' = "extract"
            /\ UNCHANGED error
    /\ UNCHANGED <<server, template, each, catch, Lvals_dict, URT_Data, AHE_Data,
                   UEL_Data, LF_Data, UEL_DF, LF_DF, merged_df, slide, outfile>>

\* l.88-91: one turn of the loop over json_data['Results']['series']
ExtractLatest ==
    /\ pc = "extract"
    /\ IF "series" \notin DOMAIN json_data.Results
       THEN Fail("KeyError") /\ UNCHANGED <<each, catch, Lvals_dict>>
       ELSE IF each > Len(json_data.Results.series)
       THEN pc' = "lookup" /\ UNCHANGED <<error, each, catch, Lvals_dict>>
       ELSE LET r == find_latest_value(json_data.Results.series[each])
            IN  IF r.raised
                THEN Fail(r.exc) /\ UNCHANGED <<each, catch, Lvals_dict>>
                ELSE /\ catch' = r.val
                     /\ IF r.val[1] \notin DOMAIN data_dict_key
                        THEN Fail("KeyError") /\ UNCHANGED <<each, Lvals_dict>>
                        ELSE /\ Lvals_dict' = DictSet(Lvals_dict, data_dict_key[r.val[1]],
                                                      <<r.val[2], r.val[3]>>)
                             /\ each' = each + 1
                             /\ UNCHANGED <<pc, error>>
    /\ UNCHANGED <<server, template, requests, json_data, URT_Data, AHE_Data,
                   UEL_Data, LF_Data, UEL_DF, LF_DF, merged_df, slide, outfile>>

\* l.95-98
LookupScalars ==
    /\ pc = "lookup"
    /\ IF "Unemployment Rate" \notin DOMAIN Lvals_dict
       THEN Fail("KeyError") /\ UNCHANGED <<URT_Data, AHE_Data>>
       ELSE /\ URT_Data' = Lvals_dict["Unemployment Rate"]
            /\ IF "Avg Hourly Earnings" \notin DOMAIN Lvals_dict
               THEN Fail("KeyError") /\ UNCHANGED AHE_Data
               ELSE /\ AHE_Data' = Lvals_dict["Avg Hourly Earnings"]
                    /\ pc' = "trended"
                    /\ UNCHANGED error
    /\ UNCHANGED <<server, template, requests, json_data, each, catch, Lvals_dict,
                   UEL_Data, LF_Data, UEL_DF, LF_DF, merged_df, slide, outfile>>

\* l.101-108
TrendedData ==
    /\ pc = "trended"
    /\ LET uel == find_trended_data(json_data.Results.series, "Unemployment Level")
           lf == find_trended_data(json_data.Results.series, "Labor Force")
       IN  IF uel.raised
           THEN Fail(uel.exc) /\ UNCHANGED <<UEL_Data, LF_Data>>
           ELSE /\ UEL_Data' = uel.val
                /\ IF lf.raised
                   THEN Fail(lf.exc) /\ UNCHANGED LF_Data
                   ELSE /\ LF_Data' = lf.val
                        /\ pc' = "frames"
                        /\ UNCHANGED error
    /\ UNCHANGED <<server, template, requests, json_data, each, catch, Lvals_dict,
                   URT_Data, AHE_Data, UEL_DF, LF_DF, merged_df, slide, outfile>>

\* l.110-111
Frames ==
    /\ pc = "frames"
    /\ LET uel == Drop(DataFrame(UEL_Data), {"footnotes", "latest"})
           lf == Drop(DataFrame(LF_Data), {"footnotes", "latest"})
       IN  IF uel.raised
           THEN Fail(uel.exc) /\ UNCHANGED <<UEL_DF, LF_DF>>
           ELSE /\ UEL_DF' = uel.val
                /\ IF lf.raised
                   THEN Fail(lf.exc) /\ UNCHANGED LF_DF
                   ELSE /\ LF_DF' = lf.val
                        /\ pc' = "merge"
                        /\ UNCHANGED error
    /\ UNCHANGED <<server, template, requests, json_data, each, catch, Lvals_dict,
                   URT_Data, AHE_Data, UEL_Data, LF_Data, merged_df, slide, outfile>>

\* l.113-116
MergeFrames ==
    /\ pc = "merge"
    /\ LET m == Merge(UEL_DF, LF_DF)
       IN  IF m.raised
           THEN Fail(m.exc) /\ UNCHANGED merged_df
           ELSE /\ merged_df' = m.val
                /\ pc' = "month"
                /\ UNCHANGED error
    /\ UNCHANGED <<server, template, requests, json_data, each, catch, Lvals_dict,
                   URT_Data, AHE_Data, UEL_Data, LF_Data, UEL_DF, LF_DF, slide, outfile>>

\* l.126
AddMonth ==
    /\ pc = "month"
    /\ merged_df' = [i \in DOMAIN merged_df |->
            WithColumn(merged_df[i], "month", MapMonth(merged_df[i].periodName))]
    /\ pc' = "date"
    /\ UNCHANGED <<error, server, template, requests, json_data, each, catch,
                   Lvals_dict, URT_Data, AHE_Data, UEL_Data, LF_Data, UEL_DF, LF_DF,
                   slide, outfile>>

\* l.129
AddDate ==
    /\ pc = "date"
    /\ merged_df' = [i \in DOMAIN merged_df |->
            WithColumn(merged_df[i], "date", ToDatetime(merged_df[i]))]
    /\ pc' = "pdnamelist"
    /\ UNCHANGED <<error, server, template, requests, json_data, each, catch,
                   Lvals_dict, URT_Data, AHE_Data, UEL_Data, LF_Data, UEL_DF, LF_DF,
                   slide, outfile>>

\* l.131
AddLabel ==
    /\ pc = "pdnamelist"
    /\ merged_df' = [i \in DOMAIN merged_df |->
            WithColumn(merged_df[i], "pdnamelist",
                       <<merged_df[i].periodName, "-", merged_df[i].year>>)]
    /\ pc' = "sort"
    /\ UNCHANGED <<error, server, template, requests, json_data, each, catch,
                   Lvals_dict, URT_Data, AHE_Data, UEL_Data, LF_Data, UEL_DF, LF_DF,
                   slide, outfile>>

\* l.133
Sort ==
    /\ pc = "sort"
    /\ merged_df' = SortValues(merged_df)
    /\ pc' = "open"
    /\ UNCHANGED <<error, server, template, requests, json_data, each, catch,
                   Lvals_dict, URT_Data, AHE_Data, UEL_Data, LF_Data, UEL_DF, LF_DF,
                   slide, outfile>>


\* l.139-149: open the template, take layout layout_index, add a slide
OpenTemplate ==
    /\ pc = "open"
    /\ IF ~template.exists
       THEN Fail("PackageNotFoundError") /\ UNCHANGED slide
       ELSE IF layout_index >= template.layouts
       THEN Fail("IndexError") /\ UNCHANGED slide
       ELSE /\ slide' = BlankSlide
            /\ pc' = "boxes"
            /\ UNCHANGED error
    /\ UNCHANGED <<server, template, requests, json_data, each, catch, Lvals_dict,
                   URT_Data, AHE_Data, UEL_Data, LF_Data, UEL_DF, LF_DF, merged_df,
                   outfile>>

\* l.151-167: element 0 of each (value, label) pair, Python's index 0
AddBoxes ==
    /\ pc = "boxes"
    /\ slide' = [slide EXCEPT !.URTbox = <<URT_Data[1], "%">>,
                              !.AHEbox = <<"$", AHE_Data[1]>>]
    /\ pc' = "chart"
    /\ UNCHANGED <<error, server, template, requests, json_data, each, catch,
                   Lvals_dict, URT_Data, AHE_Data, UEL_Data, LF_Data, UEL_DF, LF_DF,
                   merged_df, outfile>>

\* l.171: the chart's categories
Categories(rows) == [i \in DOMAIN rows |-> rows[i].pdnamelist]

\* l.172-173: the chart's two named series
ChartSeries(rows) ==
    <<[name |-> "Unemployment Level", values |-> [i \in DOMAIN rows |-> rows[i].value_UEL]],
      [name |-> "Labor Force", values |-> [i \in DOMAIN rows |-> rows[i].value_LB]]>>

\* l.169-203: the chart, then its title from the first and last date
AddChart ==
    /\ pc = "chart"
    /\ LET start_date == Strftime(MinDate(merged_df))
           end_date == Strftime(MaxDate(merged_df))
           charted == [slide EXCEPT !.categories = Categories(merged_df),
                                    !.series = ChartSeries(merged_df)]
       IN  IF start_date.raised
           THEN Fail(start_date.exc) /\ slide' = charted
           ELSE IF end_date.raised
           THEN Fail(end_date.exc) /\ slide' = charted
           ELSE /\ slide' = [charted EXCEPT !.chart_title =
                        <<"Unemployment Level vs Labor Force\n">> \o start_date.val
                            \o <<" - ">> \o end_date.val]
                /\ pc' = "notes"
                /\ UNCHANGED error
    /\ UNCHANGED <<server, template, requests, json_data, each, catch, Lvals_dict,
                   URT_Data, AHE_Data, UEL_Data, LF_Data, UEL_DF, LF_DF, merged_df,
                   outfile>>

\* l.205-215: the commentary box and the speaker notes
AddNotes ==
    /\ pc = "notes"
    /\ slide' = [slide EXCEPT !.stock_txtbox = <<"::Your Commentary Here::">>,
                              !.notes = NotesText(URT_Data, AHE_Data)]
    /\ pc' = "save"
    /\ UNCHANGED <<error, server, template, requests, json_data, each, catch,
                   Lvals_dict, URT_Data, AHE_Data, UEL_Data, LF_Data, UEL_DF, LF_DF,
                   merged_df, outfile>>

\* a save placed before the template is opened
SaveFirst == "open"

\* l.218-219: the statement prs.save is, the last one
SaveAt == "save"

\* l.218-219: the deck written to the output path
Save ==
    /\ pc = SaveAt
    /\ outfile' = Append(outfile, slide)
    /\ pc' = "done"
    /\ UNCHANGED <<error, server, template, requests, json_data, each, catch,
                   Lvals_dict, URT_Data, AHE_Data, UEL_Data, LF_Data, UEL_DF, LF_DF,
                   merged_df, slide>>

Next ==
    \/ Fetch
    \/ ExtractLatest
    \/ LookupScalars
    \/ TrendedData
    \/ Frames
    \/ MergeFrames
    \/ AddMonth
    \/ AddDate
    \/ AddLabel
    \/ Sort
    \/ OpenTemplate
    \/ AddBoxes
    \/ AddChart
    \/ AddNotes
    \/ Save

\* every environment, the series of the response in every order
Spec == Init /\ [][Next]_vars

\* every shape of one series' observations
SpecLatest == InitLatest /\ [][Next]_vars

\* every shape of the two trended series
SpecReshape == InitReshape /\ [][Next]_vars

\* all the inputs above together
SpecAll == (Init \/ InitLatest \/ InitReshape) /\ [][Next]_vars

----------------------------------------------------------------------------
(* Where the script is.                                                    *)

\* the statements of the script in source order
ProgramOrder ==
    <<"fetch", "extract", "lookup", "trended", "frames", "merge", "month", "date",
      "pdnamelist", "sort", "open", "boxes", "chart", "notes", "save", "done">>

\* the place of statement p in the script
Pos(p) == CHOOSE i \in DOMAIN ProgramOrder : ProgramOrder[i] = p

\* the statement the script is at, or was at when it failed
At == IF pc = "failed" THEN error.at ELSE pc

\* statement p has completed without an exception
Past(p) == Pos(At) > Pos(p)

\* the component of the system overview a statement belongs to, as the
\* script's section comments divide it
StageOf(p) ==
    CASE p = "fetch" -> 1
      [] p \in {"extract", "lookup", "trended"} -> 2
      [] p \in {"frames", "merge", "month", "date", "pdnamelist", "sort"} -> 3
      [] p \in {"open", "boxes", "chart", "notes", "save", "done"} -> 4

\* the series list of the parsed response (once the fetch is past and the
\* response has one)
SeriesList == json_data.Results.series

\* whether observation o carries 'latest': 'true'
IsLatest(o) == "latest" \in DOMAIN o /\ o.latest = "true"

\* the extraction loop has dealt with series i: gone past it or failed on it
Handled(i) == Past("fetch") /\ (each > i \/ (each = i /\ pc = "failed" /\ error.at = "extract"))

----------------------------------------------------------------------------
(* C1, C2: find_latest_value.                                              *)

\* C1: whenever the extraction loop has called find_latest_value on a series
\* with at least one observation flagged latest, the call returned, and it
\* returned (seriesID, value, periodName-year) of the first flagged
\* observation; the only exception the call raises is for a series with no
\* flagged observation.
C1_LatestValueOfFlaggedEntry ==
    /\ (Past("fetch") /\ each > 1) =>
        LET s == SeriesList[each - 1]
        IN  \E j \in DOMAIN s.data :
              /\ IsLatest(s.data[j])
              /\ \A k \in 1..(j - 1) : ~IsLatest(s.data[k])
              /\ catch = <<s.seriesID, s.data[j].value,
                           <<s.data[j].periodName, "-", s.data[j].year>> >>
    /\ (pc = "failed" /\ error.at = "extract") =>
        \A j \in DOMAIN SeriesList[each].data : ~IsLatest(SeriesList[each].data[j])

\* C1 witness: the loop has passed a series whose flagged observation comes
\* after an unflagged one and before another flagged one with another value
C1_Witness ==
    /\ Past("fetch") /\ each > 1
    /\ LET d == SeriesList[each - 1].data
       IN  /\ Len(d) >= 3
           /\ ~IsLatest(d[1]) /\ IsLatest(d[2]) /\ IsLatest(d[3])
           /\ d[2].value # d[3].value
           /\ catch[2] = d[2].value

\* C2: a series with no observation flagged latest (an empty sequence
\* included) makes find_latest_value fail with DataShapeError.
C2_NoLatestIsDataShapeError ==
    Past("fetch") =>
        \A i \in DOMAIN SeriesList :
            (Handled(i) /\ \A j \in DOMAIN SeriesList[i].data : ~IsLatest(SeriesList[i].data[j]))
                => (pc = "failed" /\ error = [exc |-> "DataShapeError", at |-> "extract"])

----------------------------------------------------------------------------
(* C3 to C6: the Reshaper.                                                 *)

\* the two frames joined, as sequences of rows
A == UEL_DF.rows
B == LF_DF.rows

\* the key of a row: with and without the period name
Key3(r) == <<r.year, r.period, r.periodName>>
Key2(r) == <<r.year, r.period>>

\* the elements of sequence q
Range(q) == {q[i] : i \in DOMAIN q}

\* the smaller of two numbers
Min(a, b) == IF a <= b THEN a ELSE b

\* the first day of a row's (year, month) as yyyymmdd, for a row whose
\* period name is a month
FirstDay(r) == ToNumeric(r.year) * 10000 + month_map[r.periodName] * 100 + 1

\* C3: month_map sends the twelve month names onto 1..12, and a merged row
\* whose periodName is none of them makes the reshaping fail with
\* DataShapeError: no such row gets past the month lookup.
C3_UnrecognizedPeriodFails ==
    /\ Cardinality(DOMAIN month_map) = 12
    /\ {month_map[m] : m \in DOMAIN month_map} = 1..12
    /\ Past("month") => \A i \in DOMAIN merged_df : merged_df[i].periodName \in DOMAIN month_map
    /\ (pc = "failed" /\ error.at = "month") => error.exc = "DataShapeError"

\* C4 as claimed: the merged table has at most min(|A|, |B|) rows, as many
\* as there are (year, period) pairs that occur in both A and B.
C4_RowCountIsCommonYearPeriod ==
    Past("merge") =>
        /\ Len(merged_df) <= Min(Len(A), Len(B))
        /\ Len(merged_df) = Cardinality({Key2(r) : r \in Range(A)} \cap {Key2(r) : r \in Range(B)})

\* C4 amended: the merged table has one row for every pair of an A row and
\* a B row that agree on (year, period, periodName); when neither sequence
\* repeats a (year, period, periodName) key that is at most min(|A|, |B|)
\* rows, as many as there are keys that occur in both.
C4_RowCountIsMatchingPairs ==
    Past("merge") =>
        /\ Len(merged_df) = Cardinality({ab \in (DOMAIN A) \X (DOMAIN B) :
                                            Key3(A[ab[1]]) = Key3(B[ab[2]])})
        /\ (/\ \A i, j \in DOMAIN A : Key3(A[i]) = Key3(A[j]) => i = j
            /\ \A i, j \in DOMAIN B : Key3(B[i]) = Key3(B[j]) => i = j)
           => /\ Len(merged_df) <= Min(Len(A), Len(B))
              /\ Len(merged_df) = Cardinality({Key3(r) : r \in Range(A)}
                                                \cap {Key3(r) : r \in Range(B)})

\* C4 witness: A repeats a key that B has, and the merged table is longer
\* than the shorter sequence
C4_Witness ==
    /\ Past("merge")
    /\ \E i, j \in DOMAIN A : i # j /\ Key3(A[i]) = Key3(A[j])
                              /\ \E k \in DOMAIN B : Key3(B[k]) = Key3(A[i])
    /\ Len(merged_df) > Min(Len(A), Len(B))

\* C5 as claimed: a (year, period) is a row of the final table exactly when
\* both series have an observation for it.
C5_RowIffBothHaveYearPeriod ==
    Past("sort") =>
        {Key2(r) : r \in Range(merged_df)}
            = {Key2(r) : r \in Range(A)} \cap {Key2(r) : r \in Range(B)}

\* C5 amended: a (year, period, periodName) is a row of the final table
\* exactly when both series have an observation for it; every row carries
\* the value of an A observation and of a B observation with the row's key,
\* a (year, period) that only one series has is in no row, and the chart
\* has one point per row with the row's label and two values.
C5_RowIffBothHaveKey ==
    /\ Past("sort") =>
        /\ {Key3(r) : r \in Range(merged_df)}
              = {Key3(r) : r \in Range(A)} \cap {Key3(r) : r \in Range(B)}
        /\ \A i \in DOMAIN merged_df :
              \E a \in DOMAIN A, b \in DOMAIN B :
                  /\ Key3(A[a]) = Key3(merged_df[i])
                  /\ Key3(B[b]) = Key3(merged_df[i])
                  /\ merged_df[i].value_UEL = A[a].value
                  /\ merged_df[i].value_LB = B[b].value
        /\ \A i \in DOMAIN merged_df :
              /\ Key2(merged_df[i]) \in {Key2(r) : r \in Range(A)}
              /\ Key2(merged_df[i]) \in {Key2(r) : r \in Range(B)}
    /\ Past("chart") =>
        /\ Len(slide.categories) = Len(merged_df)
        /\ \A i \in DOMAIN merged_df :
              /\ slide.categories[i] = <<merged_df[i].periodName, "-", merged_df[i].year>>
              /\ slide.series[1].values[i] = merged_df[i].value_UEL
              /\ slide.series[2].values[i] = merged_df[i].value_LB

\* C5 witness: A has January-2023, February-2023 and January-2024, B has
\* January of both years only, and the saved chart shows the two Januaries
C5_Witness ==
    /\ pc = "done"
    /\ {Key3(r) : r \in Range(A)} = {<<"2023", "M01", "January">>,
            <<"2023", "M02", "February">>, <<"2024", "M01", "January">>}
    /\ {Key3(r) : r \in Range(B)} = {<<"2023", "M01", "January">>,
            <<"2024", "M01", "January">>}
    /\ outfile[1].categories = <<<<"January", "-", "2023">>, <<"January", "-", "2024">>>>

\* C6: after the sort every two adjacent rows r1, r2 have dates, the first
\* day of their (year, month), with date(r1) <= date(r2), and the chart's
\* categories and both value series are in the order of the rows.
C6_AdjacentRowsInDateOrder ==
    /\ Past("sort") =>
        \A i \in 1..(Len(merged_df) - 1) :
            /\ ~merged_df[i].date.nat
            /\ ~merged_df[i + 1].date.nat
            /\ merged_df[i].date.ymd <= merged_df[i + 1].date.ymd
    /\ Past("chart") =>
        /\ slide.categories = [i \in DOMAIN merged_df |-> merged_df[i].pdnamelist]
        /\ slide.series[1].values = [i \in DOMAIN merged_df |-> merged_df[i].value_UEL]
        /\ slide.series[2].values = [i \in DOMAIN merged_df |-> merged_df[i].value_LB]

\* C6, the part that holds: of two rows with a month name the earlier in
\* the table has no later first-of-month date, rows without a date come
\* after all dated ones, and the chart's categories and both value series
\* are in the order of the rows.
C6_DatedRowsSorted ==
    /\ Past("sort") =>
        \A i, j \in DOMAIN merged_df :
            i < j =>
                /\ (merged_df[i].periodName \in DOMAIN month_map
                    /\ merged_df[j].periodName \in DOMAIN month_map)
                    => FirstDay(merged_df[i]) <= FirstDay(merged_df[j])
                /\ merged_df[i].periodName \notin DOMAIN month_map
                    => merged_df[j].periodName \notin DOMAIN month_map
    /\ Past("chart") =>
        /\ slide.categories = [i \in DOMAIN merged_df |->
                <<merged_df[i].periodName, "-", merged_df[i].year>>]
        /\ slide.series[1].values = [i \in DOMAIN merged_df |-> merged_df[i].value_UEL]
        /\ slide.series[2].values = [i \in DOMAIN merged_df |-> merged_df[i].value_LB]

\* a run where C6_DatedRowsSorted has work to do: the API sent January-2024
\* before February-2023, and the saved chart shows February-2023 first
C6_DatedRowsSortedCase ==
    /\ pc = "done"
    /\ Len(A) >= 2
    /\ Key3(A[1]) = <<"2024", "M01", "January">>
    /\ Key3(A[2]) = <<"2023", "M02", "February">>
    /\ Len(merged_df) >= 2
    /\ outfile[1].categories[1] = <<"February", "-", "2023">>
    /\ outfile[1].categories[Len(merged_df)] = <<"January", "-", "2024">>
    /\ outfile[1].series[1].values[1] = A[2].value

----------------------------------------------------------------------------
(* C7 to C10: the whole run.                                               *)

\* the places in the response of the series with identifier id
PlacesOf(id) == {i \in DOMAIN SeriesList : SeriesList[i].seriesID = id}

\* the identifier the script labels with label
IdOf(label) == CHOOSE id \in DOMAIN data_dict_key : data_dict_key[id] = label

\* the first observation flagged latest of the only series with identifier id
LatestOf(id) ==
    LET d == SeriesList[CHOOSE i \in PlacesOf(id) : TRUE].data
    IN  d[CHOOSE j \in DOMAIN d : IsLatest(d[j]) /\ \A k \in 1..(j - 1) : ~IsLatest(d[k])]

\* C7: once the two find_trended_data calls have returned, each returned
\* the whole observation sequence of the series with the label asked for;
\* with no such series in the list the call fails and the run stops there.
C7_LabelNotFoundFails ==
    Past("trended") =>
        /\ \E i \in PlacesOf(IdOf("Unemployment Level")) : UEL_Data = Some(SeriesList[i].data)
        /\ \E i \in PlacesOf(IdOf("Labor Force")) : LF_Data = Some(SeriesList[i].data)

\* the pieces of text before its first line break, and those after it
FirstLine(text) ==
    SubSeq(text, 1, (CHOOSE i \in DOMAIN text : text[i] = "\n" /\ \A k \in 1..(i - 1) : text[k] # "\n") - 1)
SecondLine(text) ==
    SubSeq(text, (CHOOSE i \in DOMAIN text : text[i] = "\n" /\ \A k \in 1..(i - 1) : text[k] # "\n") + 1, Len(text))

\* whether the pieces of part occur in text one after the other
ContainsAll(text, part) ==
    \E i \in 0..(Len(text) - Len(part)) : SubSeq(text, i + 1, i + Len(part)) = part

\* C8 as claimed: the notes are two lines, the first with the label
\* (periodName-year) and the raw value of Unemployment Rate, the second with
\* those of Avg Hourly Earnings.
C8_NotesHaveLabelAndValue ==
    Past("notes") =>
        LET urt == LatestOf("LNS14000000")
            ahe == LatestOf("CES0500000003")
        IN  /\ Cardinality({i \in DOMAIN slide.notes : slide.notes[i] = "\n"}) = 1
            /\ ContainsAll(FirstLine(slide.notes), <<urt.periodName, "-", urt.year>>)
            /\ Contains(FirstLine(slide.notes), urt.value)
            /\ ContainsAll(SecondLine(slide.notes), <<ahe.periodName, "-", ahe.year>>)
            /\ Contains(SecondLine(slide.notes), ahe.value)

\* C8 amended: the notes are two lines, "Unemployment Rate Data: " followed
\* by the latest label (periodName-year) of Unemployment Rate and
\* "Avg Hourly Earnings Data: " followed by that of Avg Hourly Earnings, and
\* nothing else: the raw values are not appended.
C8_NotesHaveLabelsOnly ==
    Past("notes") =>
        LET urt == LatestOf("LNS14000000")
            ahe == LatestOf("CES0500000003")
        IN  /\ Cardinality({i \in DOMAIN slide.notes : slide.notes[i] = "\n"}) = 1
            /\ FirstLine(slide.notes)
                  = <<"Unemployment Rate Data: ", urt.periodName, "-", urt.year>>
            /\ SecondLine(slide.notes)
                  = <<"Avg Hourly Earnings Data: ", ahe.periodName, "-", ahe.year>>

\* C8 witness: a saved deck whose Unemployment Rate series has "3.7" for
\* April-2024 as its first flagged observation, after an unflagged one
C8_Witness ==
    /\ pc = "done"
    /\ LET d == SeriesList[CHOOSE i \in PlacesOf("LNS14000000") : TRUE].data
       IN  /\ Len(d) >= 2
           /\ ~IsLatest(d[1])
           /\ IsLatest(d[2]) /\ d[2].value = "3.7" /\ d[2].periodName = "April"
    /\ outfile[1].notes[2] = "April"


\* a slide with everything the Renderer puts on it
Complete(sl) ==
    /\ sl # None
    /\ sl.URTbox # <<>> /\ sl.AHEbox # <<>>
    /\ Len(sl.series) = 2
    /\ sl.chart_title # <<>>
    /\ sl.stock_txtbox # <<>>
    /\ sl.notes # <<>>

\* the response and the merged table meet none of the failure conditions of
\* the stages: every series has a latest-flagged observation, each of the
\* four labels has its series, and every merged row has a date
NoStageFailed ==
    /\ \A i \in DOMAIN SeriesList : \E j \in DOMAIN SeriesList[i].data : IsLatest(SeriesList[i].data[j])
    /\ \A id \in DOMAIN data_dict_key : PlacesOf(id) # {}
    /\ \A i \in DOMAIN merged_df : merged_df[i].periodName \in DOMAIN month_map

\* C9: one request is sent and never another; the output file is written
\* by the last statement only, after every stage has completed without a
\* failure, so that a failure of any stage (fetch, missing series, label or
\* latest flag, join or date derivation, template layout) leaves no file.
C9_FailureLeavesNoFile ==
    /\ requests = (IF pc = "fetch" THEN 0 ELSE 1)
    /\ outfile # <<>> => (/\ pc = "done"
                          /\ outfile = <<slide>>
                          /\ Complete(slide)
                          /\ NoStageFailed)
    /\ pc = "failed" => outfile = <<>>

\* C9, the part that holds: the statements run in source order, so the
\* stages run in the order Fetcher, Extractor, Reshaper, Renderer; exactly
\* one request is sent, by the first statement, and never again; the output
\* file is written once, by the last statement, with the complete slide; a
\* run that raises an exception at any statement stops there and has
\* written no file.
C9_LinearRunSavesLast ==
    /\ [](/\ requests = (IF pc = "fetch" THEN 0 ELSE 1)
          /\ outfile # <<>> => (/\ pc = "done"
                                /\ error.exc = "none"
                                /\ outfile = <<slide>>
                                /\ Complete(slide))
          /\ pc = "failed" => (outfile = <<>> /\ error.exc # "none")
          /\ pc = "done" => outfile # <<>>)
    /\ [][/\ pc # "failed" /\ pc # "done"
          /\ pc' # "failed" => (/\ Pos(pc') \in {Pos(pc), Pos(pc) + 1}
                                /\ StageOf(pc') \in {StageOf(pc), StageOf(pc) + 1}
                                /\ error' = error)
          /\ pc' = "failed" => error'.at = pc
          /\ requests' # requests => pc = "fetch"
          /\ outfile' # outfile => (pc = "save" /\ pc' = "done")]_vars

\* a run where C9_LinearRunSavesLast has work to do: it got through the
\* fetch, the extraction and the reshaping and failed in the Renderer, on
\* the template's layouts, with one request sent and no file written
C9_LinearRunSavesLastCase ==
    /\ pc = "failed"
    /\ error = [exc |-> "IndexError", at |-> "open"]
    /\ requests = 1
    /\ Len(merged_df) = 2
    /\ outfile = <<>>

\* C10: whatever the order of the four series in the response, the first
\* text box shows the latest value of LNS14000000 followed by '%', the
\* second '$' followed by the latest value of CES0500000003, and the chart's
\* lines 'Unemployment Level' and 'Labor Force' hold, for every category,
\* the value series LNS13000000 and series JTS000000000000000JOL have for
\* that period.
C10_SelectedBySeriesId ==
    /\ Past("boxes") =>
        /\ slide.URTbox = <<LatestOf("LNS14000000").value, "%">>
        /\ slide.AHEbox = <<"$", LatestOf("CES0500000003").value>>
    /\ Past("chart") =>
        LET line(n, name, id) ==
                /\ slide.series[n].name = name
                /\ Len(slide.series[n].values) = Len(slide.categories)
                /\ \A i \in DOMAIN slide.categories :
                      \E k \in PlacesOf(id) :
                          \E o \in Range(SeriesList[k].data) :
                              /\ <<o.periodName, "-", o.year>> = slide.categories[i]
                              /\ o.value = slide.series[n].values[i]
        IN  /\ Len(slide.categories) > 0
            /\ line(1, "Unemployment Level", "LNS13000000")
            /\ line(2, "Labor Force", "JTS000000000000000JOL")

\* C10 witness: a saved deck from a response that lists the series in the
\* reverse of the request's order
C10_Witness ==
    /\ pc = "done"
    /\ [i \in DOMAIN SeriesList |-> SeriesList[i].seriesID]
          = <<"LNS14000000", "CES0500000003", "JTS000000000000000JOL", "LNS13000000">>
    /\ outfile[1].URTbox = <<"3.9", "%">>
    /\ outfile[1].AHEbox = <<"$", "34.57">>

====
